---------------------------- MODULE Spec2Model ----------------------------
(***************************************************************************)
(* The IPL dashboard script src/dash.py as a state machine.                *)
(*                                                                         *)
(* One render of the script is a run through its statements: load_data     *)
(* (memoized by st.cache_data), then the pipelines of the five tabs in the *)
(* order of the file, each one emitting a chart or raising.  An uncaught   *)
(* exception ends the render (pc = "failed"), st.stop() ends it too        *)
(* (pc = "stopped").  A session is a sequence of renders of one process.   *)
(*                                                                         *)
(* Representation.  A table is [cols, rows]: rows is a sequence of         *)
(* functions from the column names to cells.  Player, team and venue names *)
(* are positive integers whose numeric order is the sort order of the      *)
(* names; 0 is the empty cell of such a column.  Text cells that pandas    *)
(* reads as missing become NaN.  A quotient (strike rate, economy) is the  *)
(* float64 value the code computes, rounding included: see Float below.    *)
(***************************************************************************)
EXTENDS Integers, Sequences, FiniteSets, TLC

VARIABLES
    srcExists,   \* [matches, balls]: os.path.exists of each source file
    csv,         \* [matches, balls]: the content of each source file
    cache,       \* st.cache_data's entry for load_data
    bodyRuns,    \* completed executions of load_data's body (reads of both files)
    matches,     \* the module-level matches table of the current render
    balls,       \* the module-level balls table of the current render
    out,         \* the elements the current render has emitted, in order
    pc,          \* the statement the current render is at
    render       \* number of the current render, from 1

vars == <<srcExists, csv, cache, bodyRuns, matches, balls, out, pc, render>>

(***************************************************************************)
(* Bounds of the model.                                                    *)
(***************************************************************************)
MaxMatchRows == 3
MaxBallRows == 2
WideExtra == 2
MaxRenders == 2

(***************************************************************************)
(* Program constant: every leaderboard is cut with .head(20).              *)
(***************************************************************************)
TopN == 20

Min(a, b) == IF a < b THEN a ELSE b

Range(s) == {s[i] : i \in DOMAIN s}

(***************************************************************************)
(* Cells.                                                                  *)
(***************************************************************************)
NaN == "nan"
NoName == 0

\* pd.read_csv's default na_values that the inputs use
NaStrings == {"", "NA"}

\* pd.read_csv: a text cell that is one of the na_values is read as NaN
ReadCell(s) == IF s \in NaStrings THEN NaN ELSE s

\* Series.notna on a text column
NotNa(v) == v # NaN

\* a raw date cell, as read from the file (an object-dtype string)
DateStr(s) == [kind |-> "str", text |-> s, year |-> 0]

\* what pd.to_datetime makes of one string: a Timestamp, or a parse failure
ParseDate(s) ==
    CASE s = "2008-04-18" -> [kind |-> "ts", text |-> s, year |-> 2008]
      [] s = "2008-04-19" -> [kind |-> "ts", text |-> s, year |-> 2008]
      [] s = "2009-04-18" -> [kind |-> "ts", text |-> s, year |-> 2009]
      [] OTHER -> [kind |-> "err", text |-> s, year |-> 0]

\* Index.str.strip on one column header
Strip(h) ==
    CASE h = "date " -> "date"
      [] h = " venue" -> "venue"
      [] h = " over " -> "over"
      [] OTHER -> h

(***************************************************************************)
(* Tables.                                                                 *)
(***************************************************************************)
EmptyTable == [cols |-> {}, rows |-> <<>>]

NRows(t) == Len(t.rows)

Column(t, c) == [i \in 1..NRows(t) |-> t.rows[i][c]]

\* df[c] = values: the column is added, or replaced when it exists
SetColumn(t, c, values) ==
    [cols |-> t.cols \cup {c},
     rows |-> [i \in 1..NRows(t) |->
                 [k \in t.cols \cup {c} |->
                     IF k = c THEN values[i] ELSE t.rows[i][k]]]]

\* df[mask]: the rows lo..hi whose mask is TRUE, in order
RECURSIVE SelectRows(_, _, _, _)
SelectRows(rows, mask, lo, hi) ==
    IF lo > hi THEN <<>>
    ELSE IF lo = hi THEN (IF mask[lo] THEN <<rows[lo]>> ELSE <<>>)
    ELSE LET mid == (lo + hi) \div 2
         IN SelectRows(rows, mask, lo, mid) \o SelectRows(rows, mask, mid + 1, hi)

Filter(t, mask) == [cols |-> t.cols, rows |-> SelectRows(t.rows, mask, 1, NRows(t))]

\* the table restricted to some of its columns
Project(t, cs) ==
    [cols |-> t.cols \cap cs,
     rows |-> [i \in 1..NRows(t) |-> [k \in t.cols \cap cs |-> t.rows[i][k]]]]

(***************************************************************************)
(* pandas aggregation, as the script uses it.                              *)
(***************************************************************************)
TextCols == {"dismissal_kind", "extra_type", "toss_decision"}
NameCols == {"batsman", "bowler", "venue", "winner", "player_of_match",
             "toss_winner"}

\* the missing value of a column (numeric columns of the inputs have none)
NullOf(c) ==
    CASE c \in TextCols -> NaN
      [] c \in NameCols -> NoName
      [] OTHER -> -1

\* the group keys of groupby(c) and value_counts(): missing keys are dropped
GroupKeys(t, c) == {t.rows[i][c] : i \in 1..NRows(t)} \ {NullOf(c)}

\* groupby(key)[val].sum() for one group, over the rows lo..hi
RECURSIVE SumWhere(_, _, _, _, _, _)
SumWhere(rows, key, k, val, lo, hi) ==
    IF lo > hi THEN 0
    ELSE IF lo = hi THEN (IF rows[lo][key] = k THEN rows[lo][val] ELSE 0)
    ELSE LET mid == (lo + hi) \div 2
         IN SumWhere(rows, key, k, val, lo, mid)
            + SumWhere(rows, key, k, val, mid + 1, hi)

GroupSum(t, key, k, val) == SumWhere(t.rows, key, k, val, 1, NRows(t))

\* groupby(key).size(), and agg "count" of a column without missing values
GroupSize(t, key, k) == Cardinality({i \in 1..NRows(t) : t.rows[i][key] = k})

\* groupby sorts its integer keys ascending (sort=True is the default)
RECURSIVE SortedKeys(_)
SortedKeys(ks) ==
    IF ks = {} THEN <<>>
    ELSE LET lo == CHOOSE k \in ks : \A j \in ks : k <= j
         IN <<lo>> \o SortedKeys(ks \ {lo})

\* value_counts counts in a hash table that keeps the keys in the order of
\* their first occurrence
FirstSeen(t, c) ==
    LET ks == GroupKeys(t, c)
        first == [k \in ks |->
                    CHOOSE i \in 1..NRows(t) :
                        /\ t.rows[i][c] = k
                        /\ \A j \in 1..(i - 1) : t.rows[j][c] # k]
    IN [n \in 1..Cardinality(ks) |->
          CHOOSE k \in ks : Cardinality({x \in ks : first[x] < first[k]}) = n - 1]

(***************************************************************************)
(* float64.  The quotients of the strike-rate and economy pipelines are    *)
(* IEEE-754 doubles, every operation rounded to the nearest double, ties   *)
(* to the even mantissa.  A double is [m, e] and stands for m * 2^e, with  *)
(* the mantissa m a natural number of exactly 53 bits (or 0, with e = 0,   *)
(* for 0.0).  A mantissa is held in three limbs, [hi, mid, lo] standing    *)
(* for hi * 2^40 + mid * 2^20 + lo, as it does not fit a machine integer   *)
(* of the model checker.  Only non-negative finite values occur: sums and  *)
(* counts are non-negative, and a divisor is a count of the rows of a      *)
(* group, which is at least 1.                                             *)
(***************************************************************************)
Limb == 2^20
Big(h, m, l) == [hi |-> h, mid |-> m, lo |-> l]
\* limbs brought back into 0..Limb-1, the carries moved up
BigCarry(h, m, l) ==
    LET m1 == m + (l \div Limb)
    IN Big(h + (m1 \div Limb), m1 % Limb, l % Limb)
BigOf(n) == BigCarry(0, 0, n)
BigAdd(a, b) == BigCarry(a.hi + b.hi, a.mid + b.mid, a.lo + b.lo)
\* a - b, for a >= b
BigSub(a, b) ==
    LET l == a.lo - b.lo
        bl == IF l < 0 THEN 1 ELSE 0
        m == a.mid - b.mid - bl
        bm == IF m < 0 THEN 1 ELSE 0
    IN Big(a.hi - b.hi - bm, m + bm * Limb, l + bl * Limb)
BigLess(a, b) ==
    \/ a.hi < b.hi
    \/ a.hi = b.hi /\ a.mid < b.mid
    \/ a.hi = b.hi /\ a.mid = b.mid /\ a.lo < b.lo
\* a * n, for 0 <= n <= 1024
BigTimes(a, n) == BigCarry(a.hi * n, a.mid * n, a.lo * n)
\* a * 2^k
RECURSIVE BigShl(_, _)
BigShl(a, k) ==
    IF k = 0 THEN a
    ELSE IF k >= 10 THEN BigShl(BigTimes(a, 2^10), k - 10)
    ELSE BigTimes(a, 2^k)
\* a \div 2^s, for 0 <= s <= 20
BigShr(a, s) ==
    LET p == 2^s
        q == 2^(20 - s)
    IN Big(a.hi \div p, (a.mid \div p) + (a.hi % p) * q, (a.lo \div p) + (a.mid % p) * q)
\* the number of binary digits of n
RECURSIVE BitLen(_)
BitLen(n) == IF n = 0 THEN 0 ELSE 1 + BitLen(n \div 2)
BigBitLen(a) ==
    IF a.hi > 0 THEN 40 + BitLen(a.hi)
    ELSE IF a.mid > 0 THEN 20 + BitLen(a.mid)
    ELSE BitLen(a.lo)

Float(m, e) == [m |-> m, e |-> e]
FZero == Float(Big(0, 0, 0), 0)
\* the 53-bit quotient q, rounded up or not; a mantissa that reaches 2^53
\* becomes 2^52 with the exponent one higher
FRound(q, e, up) ==
    IF ~up THEN Float(q, e)
    ELSE LET q1 == BigAdd(q, BigOf(1))
         IN IF q1.hi = 2^13 THEN Float(Big(2^12, 0, 0), e + 1) ELSE Float(q1, e)
\* an int64 sum or count taken into a float operation (exact below 2^53)
FromInt(n) ==
    IF n = 0 THEN FZero
    ELSE LET k == 53 - BitLen(n) IN Float(BigShl(BigOf(n), k), -k)
\* x * n for a double x and an integer scalar 0 <= n <= 1024
FTimesInt(x, n) ==
    IF x = FZero \/ n = 0 THEN FZero
    ELSE LET p == BigTimes(x.m, n)
             s == BigBitLen(p) - 53
             q == BigShr(p, s)
             d == p.lo % (2^s)
             up == IF s = 0 THEN FALSE
                   ELSE d > 2^(s - 1) \/ (d = 2^(s - 1) /\ q.lo % 2 = 1)
         IN FRound(q, x.e + s, up)
\* one more bit of the quotient of a long division by d: st is the quotient
\* so far and twice the remainder so far
DivStep(st, d) ==
    LET bit == IF BigLess(st[2], d) THEN 0 ELSE 1
        r1 == IF bit = 1 THEN BigSub(st[2], d) ELSE st[2]
    IN <<BigCarry(2 * st[1].hi, 2 * st[1].mid, 2 * st[1].lo + bit), BigAdd(r1, r1)>>
\* k more bits, k >= 1: the first half of them, then the rest from there
RECURSIVE DivBits(_, _, _)
DivBits(st, d, k) ==
    IF k = 1 THEN DivStep(st, d)
    ELSE CHOOSE r \in {DivBits(h, d, k - (k \div 2)) : h \in {DivBits(st, d, k \div 2)}} : TRUE
\* x / y for doubles x >= 0 and y > 0
FDiv(x, y) ==
    IF x = FZero THEN FZero
    ELSE LET ge == ~BigLess(x.m, y.m)
             qr == DivBits(<<Big(0, 0, 0), IF ge THEN x.m ELSE BigAdd(x.m, x.m)>>, y.m, 53)
             up == BigLess(y.m, qr[2]) \/ (qr[2] = y.m /\ qr[1].lo % 2 = 1)
         IN FRound(qr[1], x.e - y.e - (IF ge THEN 52 ELSE 53), up)
FLess(a, b) ==
    IF a = FZero THEN b # FZero
    ELSE b # FZero /\ (a.e < b.e \/ (a.e = b.e /\ BigLess(a.m, b.m)))

\* The results an unstable sort can give: every arrangement of the rows of S
\* in which no row comes after a row it must precede.  before is the set of
\* pairs <<i, j>> with S[i] strictly ahead of S[j] in the sort order; rows
\* that tie may come out in any order.
Arrangements(S, before) ==
    LET RECURSIVE Arrange(_)
        Arrange(rem) ==
            IF rem = {} THEN {<<>>}
            ELSE LET firsts == {i \in rem : \A j \in rem : <<j, i>> \notin before}
                 IN UNION {{<<S[i]>> \o rest : rest \in Arrange(rem \ {i})}
                           : i \in firsts}
    IN Arrange(DOMAIN S)

\* mutant: the direction of the sort is inverted
SortValuesFlipped(S, col, ascending) ==
    Arrangements(S, {p \in (DOMAIN S) \X (DOMAIN S) :
                       IF ascending THEN S[p[1]][col] > S[p[2]][col]
                       ELSE S[p[1]][col] < S[p[2]][col]})

\* DataFrame.sort_values(col, ascending=...) on an integer column, with
\* pandas' default kind="quicksort", which is not a stable sort
SortValues(S, col, ascending) ==
    Arrangements(S, {p \in (DOMAIN S) \X (DOMAIN S) :
                       IF ascending THEN S[p[1]][col] < S[p[2]][col]
                       ELSE S[p[1]][col] > S[p[2]][col]})

\* the same on a float column
SortFloats(S, col, ascending) ==
    Arrangements(S, {p \in (DOMAIN S) \X (DOMAIN S) :
                       IF ascending THEN FLess(S[p[1]][col], S[p[2]][col])
                       ELSE FLess(S[p[2]][col], S[p[1]][col])})

\* mutant: nothing is cut
HeadRowsAll(S, n) == S

\* DataFrame.head(n)
HeadRows(S, n) == SubSeq(S, 1, Min(n, Len(S)))

\* Series.value_counts().reset_index() with columns renamed to <<kc, vc>>:
\* counted in first-seen order, then sort_values(ascending=False)
ValueCounts(t, c, kc, vc) ==
    LET ks == FirstSeen(t, c)
        counted == [i \in 1..Len(ks) |->
                      (kc :> ks[i]) @@ (vc :> GroupSize(t, c, ks[i]))]
    IN SortValues(counted, vc, FALSE)

(***************************************************************************)
(* Emitted elements.                                                       *)
(***************************************************************************)
El(kind, name, data) == [kind |-> kind, name |-> name, data |-> data]

\* the three st.write lines at the head of load_data
DebugWrites(exists) ==
    << El("write", "App running from:", <<"BASE_DIR">>),
       El("write", "Matches file found:", <<exists.matches>>),
       El("write", "Balls file found:", <<exists.balls>>) >>

\* the st.error of load_data: one fixed text that lists both files
NotFoundError == El("error", "CSV files not found", <<"matches", "balls">>)

\* what Streamlit shows for an exception that escapes the script
Exception(type, at) == El("exception", type, <<at>>)

(***************************************************************************)
(* load_data.                                                              *)
(***************************************************************************)
\* pd.read_csv: the header as written, text cells with na_values as NaN,
\* date cells as strings
ReadCsv(f) ==
    [cols |-> f.header,
     rows |-> [i \in 1..Len(f.rows) |->
                 [h \in f.header |->
                     IF Strip(h) \in TextCols THEN ReadCell(f.rows[i][h])
                     ELSE IF Strip(h) = "date" THEN DateStr(f.rows[i][h])
                     ELSE f.rows[i][h]]]]

\* df.columns = df.columns.str.strip()
StripColumns(t) ==
    LET names == {Strip(h) : h \in t.cols}
        Raw(c) == CHOOSE h \in t.cols : Strip(h) = c
    IN [cols |-> names,
        rows |-> [i \in 1..NRows(t) |-> [c \in names |-> t.rows[i][Raw(c)]]]]

\* pd.to_datetime(column, errors="ignore"): the column parsed when every
\* value parses, and the column as it was when one does not
ToDatetimeIgnore(col) ==
    LET parsed == [i \in DOMAIN col |-> ParseDate(col[i].text)]
    IN IF \A i \in DOMAIN col : parsed[i].kind = "ts" THEN parsed ELSE col

\* the .dt accessor exists only on a datetime column
IsDatetime(col) == \A i \in DOMAIN col : col[i].kind = "ts"

\* Series.dt.year
DtYear(col) == [i \in DOMAIN col |-> col[i].year]

\* if "date" in matches.columns: matches["date"] = pd.to_datetime(...)
ConvertDate(m) ==
    IF "date" \in m.cols
    THEN SetColumn(m, "date", ToDatetimeIgnore(Column(m, "date")))
    ELSE m

\* the season step raises AttributeError when it reads .dt of a column that
\* is not datetime
SeasonRaises(m) ==
    /\ "season" \notin m.cols
    /\ "date" \in m.cols
    /\ ~IsDatetime(Column(m, "date"))

\* if "season" not in matches.columns and "date" in matches.columns: ...
DeriveSeason(m) ==
    IF "season" \notin m.cols /\ "date" \in m.cols
    THEN SetColumn(m, "season", DtYear(Column(m, "date")))
    ELSE m

\* balls["dismissal_kind"].notna().astype(int)
NotnaAsInt(col) == [i \in DOMAIN col |-> IF NotNa(col[i]) THEN 1 ELSE 0]

\* mutant: is_wicket is derived whether or not the file supplies it
DeriveIsWicketAlways(b) ==
    IF "dismissal_kind" \in b.cols
    THEN SetColumn(b, "is_wicket", NotnaAsInt(Column(b, "dismissal_kind")))
    ELSE b

\* if "is_wicket" not in balls.columns and "dismissal_kind" in balls.columns: ...
DeriveIsWicket(b) ==
    IF "is_wicket" \notin b.cols /\ "dismissal_kind" \in b.cols
    THEN SetColumn(b, "is_wicket", NotnaAsInt(Column(b, "dismissal_kind")))
    ELSE b

\* mutant: the branch is taken only when both files are missing
SourceMissingBoth(exists) == ~exists.matches /\ ~exists.balls

\* the guard of the missing-file branch
SourceMissing(exists) == ~exists.matches \/ ~exists.balls

\* One execution of load_data's body: the elements it emits, how it ends
\* ("return", "stop" or "raise") and the tables it returns.
LoadBody(exists, files) ==
    LET m0 == ConvertDate(StripColumns(ReadCsv(files.matches)))
        b0 == StripColumns(ReadCsv(files.balls))
    IN IF SourceMissing(exists)
       THEN [ending |-> "stop",
             emits |-> Append(DebugWrites(exists), NotFoundError),
             matches |-> EmptyTable, balls |-> EmptyTable]
       ELSE IF SeasonRaises(m0)
       THEN [ending |-> "raise",
             emits |-> Append(DebugWrites(exists),
                              Exception("AttributeError", "load_data")),
             matches |-> EmptyTable, balls |-> EmptyTable]
       ELSE [ending |-> "return",
             emits |-> DebugWrites(exists),
             matches |-> DeriveSeason(m0),
             balls |-> DeriveIsWicket(b0)]

(***************************************************************************)
(* st.cache_data.                                                          *)
(***************************************************************************)
EmptyCache == [full |-> FALSE, matches |-> EmptyTable, balls |-> EmptyTable,
               replay |-> <<>>]

\* a returned value is stored pickled, with the st elements the body emitted
CacheStore(r) == [full |-> TRUE, matches |-> r.matches, balls |-> r.balls,
                  replay |-> r.emits]

(***************************************************************************)
(* The pipelines.  Each operator gives the set of frames the pipeline can  *)
(* hand to its chart: one frame, or one per outcome of an unstable sort.   *)
(***************************************************************************)
\* df.groupby(key).size().reset_index(name=vc), rows in key order
SizeByKey(t, key, vc) ==
    LET ks == SortedKeys(GroupKeys(t, key))
    IN [i \in 1..Len(ks) |-> (key :> ks[i]) @@ (vc :> GroupSize(t, key, ks[i]))]

\* df.groupby(key)[val].sum().reset_index(), rows in key order
SumByKey(t, key, val) ==
    LET ks == SortedKeys(GroupKeys(t, key))
    IN [i \in 1..Len(ks) |-> (key :> ks[i]) @@ (val :> GroupSum(t, key, ks[i], val))]

\* the data frame column a histogram is drawn from (plotly does the binning)
HistogramData(t, c) == [i \in 1..NRows(t) |-> (c :> t.rows[i][c])]

\* matches.groupby("season").size().reset_index(name="matches")
MatchesPerSeason(m) == {SizeByKey(m, "season", "matches")}

\* matches["venue"].value_counts().reset_index(); venue.head(20)
MatchesPerVenue(m) ==
    {HeadRows(r, TopN) : r \in ValueCounts(m, "venue", "venue", "matches")}

\* matches["winner"].value_counts().reset_index()
MostSuccessfulTeams(m) == ValueCounts(m, "winner", "team", "wins")

\* matches["player_of_match"].value_counts().head(20).reset_index()
PlayerOfMatch(m) ==
    {HeadRows(r, TopN) : r \in ValueCounts(m, "player_of_match", "player", "awards")}

\* balls.groupby("batsman")["batsman_runs"].sum(), sorted descending, head(20)
TopRunScorers(b) ==
    {HeadRows(r, TopN) :
        r \in SortValues(SumByKey(b, "batsman", "batsman_runs"), "batsman_runs", FALSE)}

\* balls[balls["is_wicket"] == 1]
WicketRows(b) == Filter(b, [i \in 1..NRows(b) |-> b.rows[i]["is_wicket"] = 1])

\* wicket rows grouped by bowler, size, sorted descending, head(20)
TopWicketTakers(b) ==
    {HeadRows(r, TopN) :
        r \in SortValues(SizeByKey(WicketRows(b), "bowler", "wickets"), "wickets", FALSE)}

\* balls["is_four"] = ...; balls["is_six"] = ...
WithBoundaryFlags(b) ==
    LET runs == Column(b, "batsman_runs")
        fours == SetColumn(b, "is_four", [i \in DOMAIN runs |-> IF runs[i] = 4 THEN 1 ELSE 0])
    IN SetColumn(fours, "is_six", [i \in DOMAIN runs |-> IF runs[i] = 6 THEN 1 ELSE 0])

\* balls.groupby("batsman")[["is_four", "is_six"]].sum(), sorted by is_six
\* descending; head(20) is what both boundary charts draw
Boundary(b) ==
    LET ks == SortedKeys(GroupKeys(b, "batsman"))
        summed == [i \in 1..Len(ks) |->
                     [batsman |-> ks[i],
                      is_four |-> GroupSum(b, "batsman", ks[i], "is_four"),
                      is_six |-> GroupSum(b, "batsman", ks[i], "is_six")]]
    IN {HeadRows(r, TopN) : r \in SortValues(summed, "is_six", FALSE)}

\* mutant: ball_faced is kept out of the shared table
WithBallFacedLocal(b) == b

\* balls["ball_faced"] = 1
WithBallFaced(b) == SetColumn(b, "ball_faced", [i \in 1..NRows(b) |-> 1])

\* sr["batsman_runs"] / sr["ball_faced"] * 100
StrikeRateOf(runs, faced) == FTimesInt(FDiv(FromInt(runs), FromInt(faced)), 100)

\* mutant: the minimum the chart's title states is applied
StrikeRateMin200(b) ==
    LET ks == SortedKeys({k \in GroupKeys(b, "batsman") : GroupSize(b, "batsman", k) >= 200})
        sr == [i \in 1..Len(ks) |->
                 LET runs == GroupSum(b, "batsman", ks[i], "batsman_runs")
                     faced == GroupSize(b, "batsman", ks[i])
                 IN [batsman |-> ks[i], batsman_runs |-> runs, ball_faced |-> faced,
                     strike_rate |-> StrikeRateOf(runs, faced)]]
    IN {HeadRows(r, TopN) : r \in SortFloats(sr, "strike_rate", FALSE)}

\* balls.groupby("batsman").agg(sum of batsman_runs, count of ball_faced),
\* strike_rate, sorted descending, head(20)
StrikeRate(b) ==
    LET ks == SortedKeys(GroupKeys(b, "batsman"))
        sr == [i \in 1..Len(ks) |->
                 LET runs == GroupSum(b, "batsman", ks[i], "batsman_runs")
                     faced == GroupSize(b, "batsman", ks[i])
                 IN [batsman |-> ks[i], batsman_runs |-> runs, ball_faced |-> faced,
                     strike_rate |-> StrikeRateOf(runs, faced)]]
    IN {HeadRows(r, TopN) : r \in SortFloats(sr, "strike_rate", FALSE)}

\* balls.groupby("over")["total_runs"].sum().reset_index()
RunsPerOver(b) == {SumByKey(b, "over", "total_runs")}

\* balls["dismissal_kind"].value_counts().reset_index()
DismissalBreakdown(b) == ValueCounts(b, "dismissal_kind", "dismissal", "count")

\* balls["runs_conceded"] = balls["total_runs"]
WithRunsConceded(b) == SetColumn(b, "runs_conceded", Column(b, "total_runs"))

\* mutant: runs per delivery, not per six deliveries
EconomyPerBall(runs, bowled) == FDiv(FromInt(runs), FromInt(bowled))

\* eco["runs_conceded"] / (eco["ball_faced"] / 6)
EconomyOf(runs, bowled) == FDiv(FromInt(runs), FDiv(FromInt(bowled), FromInt(6)))

\* balls.groupby("bowler").agg(sum of runs_conceded, count of ball_faced),
\* economy, sorted ascending, head(20)
EconomyRate(b) ==
    LET ks == SortedKeys(GroupKeys(b, "bowler"))
        eco == [i \in 1..Len(ks) |->
                  LET runs == GroupSum(b, "bowler", ks[i], "runs_conceded")
                      bowled == GroupSize(b, "bowler", ks[i])
                  IN [bowler |-> ks[i], runs_conceded |-> runs, ball_faced |-> bowled,
                      economy |-> EconomyOf(runs, bowled)]]
    IN {HeadRows(r, TopN) : r \in SortFloats(eco, "economy", TRUE)}

\* wicket rows grouped by over, size
WicketsPerOver(b) == {SizeByKey(WicketRows(b), "over", "wickets")}

\* matches.groupby("toss_winner").apply(count of toss_winner == winner)
TossAndMatch(m) ==
    LET ks == SortedKeys(GroupKeys(m, "toss_winner"))
    IN {[i \in 1..Len(ks) |->
           [team |-> ks[i],
            toss_win_match_win |->
                Cardinality({j \in 1..NRows(m) :
                    /\ m.rows[j]["toss_winner"] = ks[i]
                    /\ m.rows[j]["winner"] = ks[i]})]]}

\* matches["toss_decision"].value_counts().reset_index()
TossDecision(m) == ValueCounts(m, "toss_decision", "decision", "count")

\* balls["extra_type"].value_counts().reset_index()
ExtraTypes(b) == ValueCounts(b, "extra_type", "type", "count")

(***************************************************************************)
(* The script, statement by statement.                                     *)
(***************************************************************************)
Chart(title, data) == El("chart", title, data)
Title(text) == El("title", text, <<>>)

\* the statement emits elements and control moves on
Emit(els, next) == out' = out \o els /\ pc' = next

\* the statement raises: Streamlit shows the exception and the render ends
Raise(before, type, at) ==
    out' = out \o before \o <<Exception(type, at)>> /\ pc' = "failed"

\* mutant: no memoization, the body runs at every call
LoadDataUncached ==
    /\ pc = "load_data"
    /\ LET r == LoadBody(srcExists, csv)
       IN /\ matches' = r.matches
          /\ balls' = r.balls
          /\ out' = out \o r.emits
          /\ pc' = CASE r.ending = "stop" -> "stopped"
                     [] r.ending = "raise" -> "failed"
                     [] OTHER -> "matches_per_season"
          /\ cache' = IF r.ending = "return" THEN CacheStore(r) ELSE cache
          /\ bodyRuns' = IF r.ending = "return" THEN bodyRuns + 1 ELSE bodyRuns
    /\ UNCHANGED <<srcExists, csv, render>>

\* matches, balls = load_data()
LoadData ==
    /\ pc = "load_data"
    /\ IF cache.full
       THEN \* cache hit: a fresh copy of the stored value, the body's
            \* elements replayed, the body not run
            /\ matches' = cache.matches
            /\ balls' = cache.balls
            /\ Emit(cache.replay, "matches_per_season")
            /\ UNCHANGED <<cache, bodyRuns>>
       ELSE LET r == LoadBody(srcExists, csv)
            IN /\ matches' = r.matches
               /\ balls' = r.balls
               /\ out' = out \o r.emits
               /\ pc' = CASE r.ending = "stop" -> "stopped"
                          [] r.ending = "raise" -> "failed"
                          [] OTHER -> "matches_per_season"
               /\ cache' = IF r.ending = "return" THEN CacheStore(r) ELSE cache
               /\ bodyRuns' = IF r.ending = "return" THEN bodyRuns + 1 ELSE bodyRuns
    /\ UNCHANGED <<srcExists, csv, render>>

Tables == <<matches, balls>>
Session == <<srcExists, csv, cache, bodyRuns, render>>

\* tab1: matches per season
MatchesPerSeasonStep ==
    /\ pc = "matches_per_season"
    /\ IF "season" \in matches.cols
       THEN \E r \in MatchesPerSeason(matches) :
              Emit(<<Title("IPL Matches & Season Overview"),
                     Chart("Matches Played Per Season", r)>>, "matches_per_venue")
       ELSE Raise(<<Title("IPL Matches & Season Overview")>>,
                  "KeyError", "matches_per_season")
    /\ UNCHANGED <<Tables, Session>>

\* tab1: top 20 venues
MatchesPerVenueStep ==
    /\ pc = "matches_per_venue"
    /\ IF "venue" \in matches.cols
       THEN \E r \in MatchesPerVenue(matches) :
              Emit(<<Chart("Top 20 Most Played Venues", r)>>, "win_by_runs")
       ELSE Raise(<<>>, "KeyError", "matches_per_venue")
    /\ UNCHANGED <<Tables, Session>>

\* tab1: if "win_by_runs" in matches.columns: histogram
WinByRunsStep ==
    /\ pc = "win_by_runs"
    /\ IF "win_by_runs" \in matches.cols
       THEN Emit(<<Chart("Distribution of Victory Margin (Runs)",
                         HistogramData(matches, "win_by_runs"))>>, "win_by_wickets")
       ELSE Emit(<<>>, "win_by_wickets")
    /\ UNCHANGED <<Tables, Session>>

\* tab1: if "win_by_wickets" in matches.columns: histogram
WinByWicketsStep ==
    /\ pc = "win_by_wickets"
    /\ IF "win_by_wickets" \in matches.cols
       THEN Emit(<<Chart("Distribution of Victory Margin (Wickets)",
                         HistogramData(matches, "win_by_wickets"))>>,
                 "most_successful_teams")
       ELSE Emit(<<>>, "most_successful_teams")
    /\ UNCHANGED <<Tables, Session>>

\* tab1: most successful teams
MostSuccessfulTeamsStep ==
    /\ pc = "most_successful_teams"
    /\ IF "winner" \in matches.cols
       THEN \E r \in MostSuccessfulTeams(matches) :
              Emit(<<Chart("Most Successful Teams", r)>>, "player_of_match")
       ELSE Raise(<<>>, "KeyError", "most_successful_teams")
    /\ UNCHANGED <<Tables, Session>>

\* tab2: if "player_of_match" in matches.columns: top 20
PlayerOfMatchStep ==
    /\ pc = "player_of_match"
    /\ IF "player_of_match" \in matches.cols
       THEN \E r \in PlayerOfMatch(matches) :
              Emit(<<Title("Player Performance Analysis"),
                     Chart("Top 20 Player of the Match Winners", r)>>,
                   "top_run_scorers")
       ELSE Emit(<<Title("Player Performance Analysis")>>, "top_run_scorers")
    /\ UNCHANGED <<Tables, Session>>

\* tab2: top 20 run scorers
TopRunScorersStep ==
    /\ pc = "top_run_scorers"
    /\ IF {"batsman", "batsman_runs"} \subseteq balls.cols
       THEN \E r \in TopRunScorers(balls) :
              Emit(<<Chart("Top 20 Run Scorers", r)>>, "top_wicket_takers")
       ELSE Raise(<<>>, "KeyError", "top_run_scorers")
    /\ UNCHANGED <<Tables, Session>>

\* tab2: top 20 wicket takers
TopWicketTakersStep ==
    /\ pc = "top_wicket_takers"
    /\ IF {"is_wicket", "bowler"} \subseteq balls.cols
       THEN \E r \in TopWicketTakers(balls) :
              Emit(<<Chart("Top 20 Wicket Takers", r)>>, "boundary")
       ELSE Raise(<<>>, "KeyError", "top_wicket_takers")
    /\ UNCHANGED <<Tables, Session>>

\* tab3: is_four and is_six are written into balls; six and four hitters
BoundaryStep ==
    /\ pc = "boundary"
    /\ IF "batsman_runs" \notin balls.cols
       THEN /\ balls' = balls
            /\ Raise(<<Title("Batting Detailed Analysis")>>, "KeyError", "boundary")
       ELSE /\ balls' = WithBoundaryFlags(balls)
            /\ IF "batsman" \in balls.cols
               THEN \E r \in Boundary(balls') :
                      Emit(<<Title("Batting Detailed Analysis"),
                             Chart("Top 20 Six Hitters", r),
                             Chart("Top 20 Four Hitters", r)>>, "strike_rate")
               ELSE Raise(<<Title("Batting Detailed Analysis")>>,
                          "KeyError", "boundary")
    /\ UNCHANGED <<matches, Session>>

\* tab3: ball_faced is written into balls; strike rate
StrikeRateStep ==
    /\ pc = "strike_rate"
    /\ balls' = WithBallFaced(balls)
    /\ IF {"batsman", "batsman_runs"} \subseteq balls.cols
       THEN \E r \in StrikeRate(balls') :
              Emit(<<Chart("Highest Strike Rate (Min Balls Faced = 200)", r)>>,
                   "runs_per_over")
       ELSE Raise(<<>>, "KeyError", "strike_rate")
    /\ UNCHANGED <<matches, Session>>

\* tab3: runs per over
RunsPerOverStep ==
    /\ pc = "runs_per_over"
    /\ IF {"over", "total_runs"} \subseteq balls.cols
       THEN \E r \in RunsPerOver(balls) :
              Emit(<<Chart("Runs Scored Per Over", r)>>, "dismissal")
       ELSE Raise(<<>>, "KeyError", "runs_per_over")
    /\ UNCHANGED <<Tables, Session>>

\* tab4: if "dismissal_kind" in balls.columns: types of dismissals
DismissalStep ==
    /\ pc = "dismissal"
    /\ IF "dismissal_kind" \in balls.cols
       THEN \E r \in DismissalBreakdown(balls) :
              Emit(<<Title("Bowling Detailed Analysis"),
                     Chart("Types of Dismissals", r)>>, "economy")
       ELSE Emit(<<Title("Bowling Detailed Analysis")>>, "economy")
    /\ UNCHANGED <<Tables, Session>>

\* tab4: runs_conceded is written into balls; economy reads the ball_faced
\* column the strike-rate statement wrote
EconomyStep ==
    /\ pc = "economy"
    /\ IF "total_runs" \notin balls.cols
       THEN balls' = balls /\ Raise(<<>>, "KeyError", "economy")
       ELSE /\ balls' = WithRunsConceded(balls)
            /\ IF {"bowler", "ball_faced"} \subseteq balls.cols
               THEN \E r \in EconomyRate(balls') :
                      Emit(<<Chart("Top Economy Bowlers", r)>>, "wickets_per_over")
               ELSE Raise(<<>>, "KeyError", "economy")
    /\ UNCHANGED <<matches, Session>>

\* tab4: wickets per over
WicketsPerOverStep ==
    /\ pc = "wickets_per_over"
    /\ IF {"is_wicket", "over"} \subseteq balls.cols
       THEN \E r \in WicketsPerOver(balls) :
              Emit(<<Chart("Wickets Per Over", r)>>, "toss_and_match")
       ELSE Raise(<<>>, "KeyError", "wickets_per_over")
    /\ UNCHANGED <<Tables, Session>>

\* tab5: if {"toss_winner", "winner"}.issubset(matches.columns)
TossAndMatchStep ==
    /\ pc = "toss_and_match"
    /\ IF {"toss_winner", "winner"} \subseteq matches.cols
       THEN \E r \in TossAndMatch(matches) :
              Emit(<<Title("Venue, Toss & Extra Statistics"),
                     Chart("Teams Winning Toss & Match", r)>>, "toss_decision")
       ELSE Emit(<<Title("Venue, Toss & Extra Statistics")>>, "toss_decision")
    /\ UNCHANGED <<Tables, Session>>

\* tab5: if "toss_decision" in matches.columns
TossDecisionStep ==
    /\ pc = "toss_decision"
    /\ IF "toss_decision" \in matches.cols
       THEN \E r \in TossDecision(matches) :
              Emit(<<Chart("Toss Decision: Bat vs Field", r)>>, "extra_runs")
       ELSE Emit(<<>>, "extra_runs")
    /\ UNCHANGED <<Tables, Session>>

\* tab5: if "extra_runs" in balls.columns: histogram
ExtraRunsStep ==
    /\ pc = "extra_runs"
    /\ IF "extra_runs" \in balls.cols
       THEN Emit(<<Chart("Distribution of Extra Runs",
                         HistogramData(balls, "extra_runs"))>>, "extra_type")
       ELSE Emit(<<>>, "extra_type")
    /\ UNCHANGED <<Tables, Session>>

\* tab5: if "extra_type" in balls.columns
ExtraTypeStep ==
    /\ pc = "extra_type"
    /\ IF "extra_type" \in balls.cols
       THEN \E r \in ExtraTypes(balls) :
              Emit(<<Chart("Types of Extras", r)>>, "footer")
       ELSE Emit(<<>>, "footer")
    /\ UNCHANGED <<Tables, Session>>

\* st.markdown("---"); st.caption(...)
FooterStep ==
    /\ pc = "footer"
    /\ Emit(<<El("markdown", "---", <<>>),
              El("caption", "Full IPL Dashboard", <<>>)>>, "done")
    /\ UNCHANGED <<Tables, Session>>

\* the render is over: the script ran to its end, stopped or raised
Ended == pc \in {"done", "stopped", "failed"}

\* Streamlit runs the script again from the top (a widget event, a reload);
\* the module-level names are rebound by the new run, the cache lives on
Rerun ==
    /\ Ended
    /\ render < MaxRenders
    /\ render' = render + 1
    /\ pc' = "load_data"
    /\ out' = <<>>
    /\ matches' = EmptyTable
    /\ balls' = EmptyTable
    /\ UNCHANGED <<srcExists, csv, cache, bodyRuns>>

\* between two renders a source file is removed from, or put back into, data/
SourceChange ==
    /\ Ended
    /\ render < MaxRenders
    /\ \E f \in {"matches", "balls"} :
         srcExists' = [srcExists EXCEPT ![f] = ~srcExists[f]]
    /\ UNCHANGED <<csv, cache, bodyRuns, matches, balls, out, pc, render>>

(***************************************************************************)
(* Inputs.                                                                 *)
(***************************************************************************)
\* the sequences over S of length 1..n
SeqsUpTo(S, n) == UNION {[1..k -> S] : k \in 1..n}

\* a file with the given raw header whose rows hold the given records
FileOf(header, recs) ==
    [header |-> header,
     rows |-> [i \in 1..Len(recs) |-> [h \in header |-> recs[i][Strip(h)]]]]

MatchRowSet ==
    { [season |-> 2008, date |-> "2008-04-18", venue |-> 2, winner |-> 1,
       player_of_match |-> 2, toss_winner |-> 1, toss_decision |-> "field",
       win_by_runs |-> 140, win_by_wickets |-> 0],
      [season |-> 2008, date |-> "2008-04-19", venue |-> 1, winner |-> 2,
       player_of_match |-> 1, toss_winner |-> 1, toss_decision |-> "bat",
       win_by_runs |-> 0, win_by_wickets |-> 5],
      [season |-> 2009, date |-> "2009-04-18", venue |-> 3, winner |-> 2,
       player_of_match |-> 2, toss_winner |-> 2, toss_decision |-> "bat",
       win_by_runs |-> 19, win_by_wickets |-> 0],
      [season |-> 2009, date |-> "TBD", venue |-> 1, winner |-> NoName,
       player_of_match |-> NoName, toss_winner |-> 2, toss_decision |-> "NA",
       win_by_runs |-> 0, win_by_wickets |-> 0] }

MatchHeaderFull ==
    {"season", "date", "venue", "winner", "player_of_match", "toss_winner",
     "toss_decision", "win_by_runs", "win_by_wickets"}

MatchHeaders ==
    { MatchHeaderFull,
      \* no season: it is derived from date; two headers carry blanks
      {"date ", " venue", "winner", "player_of_match", "toss_winner",
       "toss_decision", "win_by_runs", "win_by_wickets"},
      \* neither season nor date
      MatchHeaderFull \ {"season", "date"},
      \* only what the unguarded statements read
      {"season", "venue", "winner"},
      MatchHeaderFull \ {"venue"},
      MatchHeaderFull \ {"winner"} }

SmallMatchFiles ==
    {FileOf(h, rs) : h \in MatchHeaders, rs \in SeqsUpTo(MatchRowSet, MaxMatchRows)}

BallRowSet ==
    { [batsman |-> 2, bowler |-> 1, over |-> 1, batsman_runs |-> 4, total_runs |-> 4,
       extra_runs |-> 0, extra_type |-> "", dismissal_kind |-> "", is_wicket |-> 0],
      [batsman |-> 1, bowler |-> 2, over |-> 2, batsman_runs |-> 4, total_runs |-> 5,
       extra_runs |-> 1, extra_type |-> "noballs", dismissal_kind |-> "NA",
       is_wicket |-> 1],
      [batsman |-> 1, bowler |-> 1, over |-> 1, batsman_runs |-> 6, total_runs |-> 6,
       extra_runs |-> 0, extra_type |-> "NA", dismissal_kind |-> "NA", is_wicket |-> 0],
      [batsman |-> 2, bowler |-> 2, over |-> 2, batsman_runs |-> 0, total_runs |-> 1,
       extra_runs |-> 1, extra_type |-> "wides", dismissal_kind |-> "run out",
       is_wicket |-> 0],
      [batsman |-> 3, bowler |-> 1, over |-> 1, batsman_runs |-> 25, total_runs |-> 25,
       extra_runs |-> 0, extra_type |-> "", dismissal_kind |-> "", is_wicket |-> 0],
      [batsman |-> 1, bowler |-> 2, over |-> 1, batsman_runs |-> 0, total_runs |-> 0,
       extra_runs |-> 0, extra_type |-> "", dismissal_kind |-> "bowled",
       is_wicket |-> 1] }

BallHeaderFull ==
    {"batsman", "bowler", "over", "batsman_runs", "total_runs", "extra_runs",
     "extra_type", "dismissal_kind", "is_wicket"}

BallHeaders ==
    { BallHeaderFull,
      \* no is_wicket: it is derived from dismissal_kind; one header carries blanks
      {"batsman", "bowler", " over ", "batsman_runs", "total_runs", "extra_runs",
       "extra_type", "dismissal_kind"},
      \* neither dismissal_kind nor is_wicket
      BallHeaderFull \ {"dismissal_kind", "is_wicket"},
      \* is_wicket supplied, no dismissal_kind, no extras
      {"batsman", "bowler", "over", "batsman_runs", "total_runs", "is_wicket"} }

SmallBallFiles ==
    {FileOf(h, rs) : h \in BallHeaders, rs \in SeqsUpTo(BallRowSet, MaxBallRows)}

\* Tables with g groups in every leaderboard and no two groups level in any
\* metric.  Balls: batsman i faces bowler g+1-i for g+1 deliveries, i sixes
\* and then g+1-i wickets without a run.
WideBallRow(g, n) ==
    LET i == ((n - 1) \div (g + 1)) + 1
        p == ((n - 1) % (g + 1)) + 1
        six == p <= i
    IN [batsman |-> i, bowler |-> g + 1 - i, over |-> i % 3,
        batsman_runs |-> IF six THEN 6 ELSE 0, total_runs |-> IF six THEN 6 ELSE 0,
        extra_runs |-> 0, extra_type |-> "",
        dismissal_kind |-> IF six THEN "" ELSE "caught", is_wicket |-> 0]

WideBallFile(g) ==
    FileOf(BallHeaderFull \ {"is_wicket"}, [n \in 1..(g * (g + 1)) |-> WideBallRow(g, n)])

\* Matches: venue v hosts v matches, player g+1-v is player of the match there.
RECURSIVE WideMatchRows(_, _)
WideMatchRows(g, v) ==
    IF v = 0 THEN <<>>
    ELSE WideMatchRows(g, v - 1) \o
         [k \in 1..v |->
            [season |-> 2008 + (v % 2), date |-> "2008-04-18", venue |-> v,
             winner |-> 1 + (v % 2), player_of_match |-> g + 1 - v,
             toss_winner |-> 1 + (k % 2), toss_decision |-> "bat",
             win_by_runs |-> v, win_by_wickets |-> 0]]

WideMatchFile(g) == FileOf(MatchHeaderFull, WideMatchRows(g, g))

WideSizes == (TopN - 1)..(TopN + WideExtra)

\* the inputs the other table is paired with
DefaultMatchFile ==
    FileOf(MatchHeaderFull,
           [i \in 1..1 |-> CHOOSE r \in MatchRowSet : r.date = "2008-04-18"])
DefaultBallFile ==
    FileOf(BallHeaderFull,
           [i \in 1..1 |-> CHOOSE r \in BallRowSet : r.batsman_runs = 6])

\* Matches pipelines read matches only and balls pipelines balls only: the
\* datasets vary one table at a time, and the wide tables come in pairs.
Datasets ==
    {[matches |-> m, balls |-> DefaultBallFile] : m \in SmallMatchFiles}
    \cup {[matches |-> DefaultMatchFile, balls |-> b] : b \in SmallBallFiles}
    \cup {[matches |-> WideMatchFile(g), balls |-> WideBallFile(g)] : g \in WideSizes}

\* the datasets of a session of several renders
SessionDatasets ==
    {[matches |-> FileOf(h, <<r>>), balls |-> FileOf(hb, <<b>>)] :
        h \in {MatchHeaderFull, {"date ", " venue", "winner"}},
        r \in {x \in MatchRowSet : x.season = 2009},
        hb \in {BallHeaderFull, BallHeaderFull \ {"is_wicket"}},
        b \in {x \in BallRowSet : x.over = 2}}

Existence == [matches : BOOLEAN, balls : BOOLEAN]

Present == [matches |-> TRUE, balls |-> TRUE]

InitWith(exists, files) ==
    /\ srcExists = exists
    /\ csv = files
    /\ cache = EmptyCache
    /\ bodyRuns = 0
    /\ matches = EmptyTable
    /\ balls = EmptyTable
    /\ out = <<>>
    /\ pc = "load_data"
    /\ render = 1

\* the process starts: nothing is cached, the first render is at its top
Init ==
    \/ \E d \in Datasets : InitWith(Present, d)
    \/ \E e \in Existence \ {Present} :
         InitWith(e, [matches |-> DefaultMatchFile, balls |-> DefaultBallFile])

InitSession == \E e \in Existence, d \in SessionDatasets : InitWith(e, d)

\* one render of the script
Render ==
    \/ LoadData
    \/ MatchesPerSeasonStep
    \/ MatchesPerVenueStep
    \/ WinByRunsStep
    \/ WinByWicketsStep
    \/ MostSuccessfulTeamsStep
    \/ PlayerOfMatchStep
    \/ TopRunScorersStep
    \/ TopWicketTakersStep
    \/ BoundaryStep
    \/ StrikeRateStep
    \/ RunsPerOverStep
    \/ DismissalStep
    \/ EconomyStep
    \/ WicketsPerOverStep
    \/ TossAndMatchStep
    \/ TossDecisionStep
    \/ ExtraRunsStep
    \/ ExtraTypeStep
    \/ FooterStep

Next == Render

NextSession == Render \/ Rerun \/ SourceChange

\* the first render of a process, over every dataset
Spec == Init /\ [][Next]_vars

\* a session: renders following one another in one process
SpecSession == InitSession /\ [][NextSession]_vars

(***************************************************************************)
(* Reading the render's output and the loaded tables.                      *)
(***************************************************************************)
ChartAt(title) == {i \in DOMAIN out : out[i].kind = "chart" /\ out[i].name = title}
Produced(title) == ChartAt(title) # {}
ChartData(title) == out[CHOOSE i \in ChartAt(title) : TRUE].data

\* load_data has returned in this process: cache holds the loaded tables
Loaded == cache.full
LoadedMatches == cache.matches
LoadedBalls == cache.balls

\* the raw header of a file holds column c
FileHas(f, c) == \E h \in f.header : Strip(h) = c
FileCell(f, i, c) == f.rows[i][CHOOSE h \in f.header : Strip(h) = c]

\* the row at which key k is first met in column c of table t
FirstIndex(t, c, k) ==
    CHOOSE i \in 1..NRows(t) :
        t.rows[i][c] = k /\ \A j \in 1..(i - 1) : t.rows[j][c] # k

KeysIn(S, kc) == {S[i][kc] : i \in DOMAIN S}

DerivedCols == {"is_four", "is_six", "ball_faced", "runs_conceded"}

(***************************************************************************)
(* C1.  The claim: with a Balls table that lacks dismissal_kind (and so    *)
(* lacks is_wicket) the render runs to its end, the dismissal breakdown,   *)
(* top wicket takers and wickets per over are left out, and top run        *)
(* scorers and runs per over are produced.  The code reads is_wicket       *)
(* without a guard: the render ends in a KeyError at top wicket takers.    *)
(***************************************************************************)
C1_OmitsWicketPipelines ==
    ( /\ Ended
      /\ Loaded
      /\ LoadedBalls.cols \cap {"dismissal_kind", "is_wicket"} = {}
      /\ {"batsman", "bowler", "batsman_runs", "total_runs", "over"}
             \subseteq LoadedBalls.cols
      /\ {"season", "venue", "winner"} \subseteq LoadedMatches.cols )
    => /\ pc = "done"
       /\ ~Produced("Types of Dismissals")
       /\ ~Produced("Top 20 Wicket Takers")
       /\ ~Produced("Wickets Per Over")
       /\ Produced("Top 20 Run Scorers")
       /\ Produced("Runs Scored Per Over")

(***************************************************************************)
(* C2.  The claim as written: when a source is missing the render halts    *)
(* having emitted nothing but the error report.                            *)
(***************************************************************************)
C2_OnlyErrorEmitted ==
    pc = "stopped" => \A i \in DOMAIN out : out[i].kind = "error"

(***************************************************************************)
(* C2, amended.  When a source is missing as load_data's body runs, the    *)
(* render emits the three diagnostic lines (the two "found" lines say      *)
(* which source is missing), then the one error message, whose text does   *)
(* not depend on which source is missing, and halts: no table is returned, *)
(* nothing is cached and no pipeline result is produced.                   *)
(***************************************************************************)
C2_HaltsOnMissingSource ==
    /\ ((~srcExists.matches \/ ~srcExists.balls) /\ pc # "load_data") =>
          /\ pc = "stopped"
          /\ Len(out) = 4
          /\ \A i \in 1..3 : out[i].kind = "write"
          /\ out[2].data = <<srcExists.matches>>
          /\ out[3].data = <<srcExists.balls>>
          /\ out[4] = NotFoundError
          /\ ~Loaded
          /\ matches = EmptyTable /\ balls = EmptyTable
    /\ pc = "stopped" => (~srcExists.matches \/ ~srcExists.balls)

C2_Witness ==
    pc = "stopped" /\ ~srcExists.matches /\ srcExists.balls /\ Len(out) = 4

(***************************************************************************)
(* C3.  The claim: a date column with values that do not parse never       *)
(* keeps load_data from returning both tables, the values left as they     *)
(* were, also when season has to be derived from date.  The code reads     *)
(* .dt.year of the unconverted column and load_data raises.                *)
(***************************************************************************)
C3_LoadToleratesBadDates ==
    ( /\ pc # "load_data"
      /\ srcExists.matches /\ srcExists.balls
      /\ FileHas(csv.matches, "date")
      /\ \E i \in 1..Len(csv.matches.rows) :
            ParseDate(FileCell(csv.matches, i, "date")).kind = "err" )
    => /\ pc # "failed" \/ out[Len(out)].data # <<"load_data">>
       /\ Loaded
       /\ \A i \in 1..NRows(LoadedMatches) :
             LoadedMatches.rows[i]["date"] = DateStr(FileCell(csv.matches, i, "date"))

(***************************************************************************)
(* C4.  The is_wicket derivation: a supplied is_wicket column is returned  *)
(* as it is in the file whatever dismissal_kind holds; absent, with        *)
(* dismissal_kind present, it is 1 on the rows whose dismissal_kind is not *)
(* missing and 0 on the others; and deriving again changes nothing.        *)
(***************************************************************************)
C4_IsWicketDerivation ==
    Loaded =>
        LET f == csv.balls
            b == LoadedBalls
        IN /\ NRows(b) = Len(f.rows)
           /\ FileHas(f, "is_wicket") =>
                 \A i \in 1..NRows(b) :
                     b.rows[i]["is_wicket"] = FileCell(f, i, "is_wicket")
           /\ (~FileHas(f, "is_wicket") /\ FileHas(f, "dismissal_kind")) =>
                 /\ "is_wicket" \in b.cols
                 /\ \A i \in 1..NRows(b) :
                       b.rows[i]["is_wicket"] =
                           IF FileCell(f, i, "dismissal_kind") \in NaStrings
                           THEN 0 ELSE 1
           /\ (~FileHas(f, "is_wicket") /\ ~FileHas(f, "dismissal_kind")) =>
                 "is_wicket" \notin b.cols
           /\ DeriveIsWicket(b) = b

\* a supplied is_wicket that disagrees with dismissal_kind has been loaded
C4_Witness ==
    /\ Loaded
    /\ FileHas(csv.balls, "is_wicket") /\ FileHas(csv.balls, "dismissal_kind")
    /\ \E i \in 1..NRows(LoadedBalls) :
          /\ LoadedBalls.rows[i]["is_wicket"] = 0
          /\ LoadedBalls.rows[i]["dismissal_kind"] # NaN
    /\ \E i \in 1..NRows(LoadedBalls) :
          /\ LoadedBalls.rows[i]["is_wicket"] = 1
          /\ LoadedBalls.rows[i]["dismissal_kind"] = NaN

(***************************************************************************)
(* C5.  The claim as written: the columns a pipeline derives are its own   *)
(* and are not added to the Balls table the later pipelines read, and the  *)
(* economy-rate result needs nothing another pipeline left behind.         *)
(***************************************************************************)
C5_DerivedColumnsLocal ==
    /\ balls.cols \cap DerivedCols = {}
    /\ Produced("Top Economy Bowlers") => "ball_faced" \in LoadedBalls.cols

(***************************************************************************)
(* C5, amended.  The derived columns are written into the render's shared  *)
(* Balls table and stay there: is_four and is_six from the boundary        *)
(* pipeline on, ball_faced from the strike-rate pipeline on, runs_conceded *)
(* from the economy pipeline on.  The economy pipeline reads the           *)
(* ball_faced column the strike-rate pipeline wrote (the loaded table has  *)
(* none), so it produces its result only after the strike-rate pipeline    *)
(* ran in the same render.  The loaded columns themselves are not changed. *)
(***************************************************************************)
C5_DerivedColumnsShared ==
    /\ Produced("Top 20 Six Hitters") => {"is_four", "is_six"} \subseteq balls.cols
    /\ Produced("Highest Strike Rate (Min Balls Faced = 200)") =>
          "ball_faced" \in balls.cols
    /\ Produced("Top Economy Bowlers") =>
          /\ "runs_conceded" \in balls.cols
          /\ "ball_faced" \notin LoadedBalls.cols
          /\ Produced("Highest Strike Rate (Min Balls Faced = 200)")
          /\ \A i \in 1..NRows(balls) :
                /\ balls.rows[i]["ball_faced"] = 1
                /\ balls.rows[i]["runs_conceded"] = balls.rows[i]["total_runs"]
    /\ (Loaded /\ pc \notin {"load_data", "stopped"}) =>
          Project(balls, LoadedBalls.cols) = LoadedBalls

C5_Witness ==
    /\ pc = "done"
    /\ Produced("Top Economy Bowlers")
    /\ DerivedCols \subseteq balls.cols
    /\ LoadedBalls.cols \cap DerivedCols = {}

(***************************************************************************)
(* C6.  The claim as written, for the leaderboards built with groupby and  *)
(* sort_values (run scorers, wicket takers, six and four hitters, strike   *)
(* rate): two groups level on the metric stand in the order in which their *)
(* keys are first met in the rows of the table, and no order of the keys   *)
(* decides.  Checked on the level pairs that stand in ascending key order: *)
(* by the claim they were first met in that order too.                     *)
(***************************************************************************)
LevelPairsInEncounterOrder(S, kc, col, t) ==
    \A i \in 1..(Len(S) - 1) :
        (S[i][col] = S[i + 1][col] /\ S[i][kc] < S[i + 1][kc]) =>
            FirstIndex(t, kc, S[i][kc]) < FirstIndex(t, kc, S[i + 1][kc])

C6_TiesInEncounterOrder ==
    /\ Produced("Top 20 Run Scorers") =>
          LevelPairsInEncounterOrder(ChartData("Top 20 Run Scorers"), "batsman",
                                     "batsman_runs", LoadedBalls)
    /\ Produced("Top 20 Wicket Takers") =>
          LevelPairsInEncounterOrder(ChartData("Top 20 Wicket Takers"), "bowler",
                                     "wickets", WicketRows(LoadedBalls))
    /\ Produced("Top 20 Six Hitters") =>
          LevelPairsInEncounterOrder(ChartData("Top 20 Six Hitters"), "batsman",
                                     "is_six", LoadedBalls)
    /\ Produced("Highest Strike Rate (Min Balls Faced = 200)") =>
          LevelPairsInEncounterOrder(
              ChartData("Highest Strike Rate (Min Balls Faced = 200)"), "batsman",
              "strike_rate", LoadedBalls)

(***************************************************************************)
(* C6, amended.  Every descending top-20 leaderboard is ordered by its     *)
(* metric, highest first, and holds the groups with the highest metric: a  *)
(* group left out is not above any group kept.  Nothing more fixes the     *)
(* order of level groups: the sort is pandas' default, unstable quicksort, *)
(* and groupby hands it the groups in ascending key order, not in the      *)
(* order of first encounter.                                               *)
(***************************************************************************)
\* S is ordered by metric col, highest first, its keys are distinct groups of
\* all, and no group of all outside S has a higher metric than one inside
LeaderboardOf(S, kc, col, all) ==
    /\ \A i \in 1..(Len(S) - 1) : S[i][col] >= S[i + 1][col]
    /\ \A i, j \in DOMAIN S : i # j => S[i][kc] # S[j][kc]
    /\ \A i \in DOMAIN S : S[i][kc] \in DOMAIN all /\ S[i][col] = all[S[i][kc]]
    /\ \A k \in DOMAIN all : \A i \in DOMAIN S :
          k \notin KeysIn(S, kc) => all[k] <= S[i][col]

\* the same for a float64 metric
FloatLeaderboardOf(S, kc, col, all) ==
    /\ \A i \in 1..(Len(S) - 1) : ~FLess(S[i][col], S[i + 1][col])
    /\ \A i, j \in DOMAIN S : i # j => S[i][kc] # S[j][kc]
    /\ \A i \in DOMAIN S : S[i][kc] \in DOMAIN all /\ S[i][col] = all[S[i][kc]]
    /\ \A k \in DOMAIN all : \A i \in DOMAIN S :
          k \notin KeysIn(S, kc) => ~FLess(S[i][col], all[k])

\* the double f stands for exactly num / den (0 <= num, 1 <= den <= 1024)
ExactQuotient(f, num, den) ==
    IF num = 0 THEN f = FZero
    ELSE /\ f # FZero
         /\ f.e <= 0
         /\ BitLen(num) - f.e <= 62
         /\ BigTimes(f.m, den) = BigShl(BigOf(num), -f.e)

\* the double f is num / den to within float64 rounding: the two differ by
\* no more than num / den * 2^-51
NearQuotient(f, num, den) ==
    IF num = 0 THEN f = FZero
    ELSE /\ f # FZero
         /\ f.e <= 0
         /\ BitLen(num) - f.e <= 62
         /\ LET x == BigTimes(f.m, den)
                y == BigShl(BigOf(num), -f.e)
                diff == IF BigLess(x, y) THEN BigSub(y, x) ELSE BigSub(x, y)
            IN diff.hi = 0 /\ diff.mid = 0 /\ diff.lo <= y.hi \div (2^11)

\* the metric of every group, from the loaded tables
CountsOf(t, c) == [k \in GroupKeys(t, c) |-> Cardinality({i \in 1..NRows(t) : t.rows[i][c] = k})]
RunsOf(b) == [k \in GroupKeys(b, "batsman") |-> GroupSum(b, "batsman", k, "batsman_runs")]
SixesOf(b) ==
    [k \in GroupKeys(b, "batsman") |->
        Cardinality({i \in 1..NRows(b) :
            b.rows[i]["batsman"] = k /\ b.rows[i]["batsman_runs"] = 6})]
WicketsOf(b) ==
    [k \in {b.rows[i]["bowler"] : i \in {j \in 1..NRows(b) : b.rows[j]["is_wicket"] = 1}} |->
        Cardinality({i \in 1..NRows(b) :
            b.rows[i]["bowler"] = k /\ b.rows[i]["is_wicket"] = 1})]
FacedOf(b) == CountsOf(b, "batsman")
BowledOf(b) == CountsOf(b, "bowler")
ConcededOf(b) == [k \in GroupKeys(b, "bowler") |-> GroupSum(b, "bowler", k, "total_runs")]
\* runs / deliveries * 100 and runs / (deliveries / 6), in float64
StrikeRatesOf(b) ==
    [k \in GroupKeys(b, "batsman") |->
        FTimesInt(FDiv(FromInt(RunsOf(b)[k]), FromInt(FacedOf(b)[k])), 100)]
EconomiesOf(b) ==
    [k \in GroupKeys(b, "bowler") |->
        FDiv(FromInt(ConcededOf(b)[k]), FDiv(FromInt(BowledOf(b)[k]), FromInt(6)))]

C6_OrderedByMetric ==
    /\ Produced("Top 20 Most Played Venues") =>
          LeaderboardOf(ChartData("Top 20 Most Played Venues"), "venue", "matches",
                        CountsOf(LoadedMatches, "venue"))
    /\ Produced("Top 20 Player of the Match Winners") =>
          LeaderboardOf(ChartData("Top 20 Player of the Match Winners"), "player",
                        "awards", CountsOf(LoadedMatches, "player_of_match"))
    /\ Produced("Top 20 Run Scorers") =>
          LeaderboardOf(ChartData("Top 20 Run Scorers"), "batsman", "batsman_runs",
                        RunsOf(LoadedBalls))
    /\ Produced("Top 20 Wicket Takers") =>
          LeaderboardOf(ChartData("Top 20 Wicket Takers"), "bowler", "wickets",
                        WicketsOf(LoadedBalls))
    /\ Produced("Top 20 Six Hitters") =>
          /\ LeaderboardOf(ChartData("Top 20 Six Hitters"), "batsman", "is_six",
                           SixesOf(LoadedBalls))
          /\ ChartData("Top 20 Four Hitters") = ChartData("Top 20 Six Hitters")
    /\ Produced("Highest Strike Rate (Min Balls Faced = 200)") =>
          FloatLeaderboardOf(ChartData("Highest Strike Rate (Min Balls Faced = 200)"),
                             "batsman", "strike_rate", StrikeRatesOf(LoadedBalls))

\* two batsmen level on runs stand in key order, against the order in which
\* the rows of the table meet them
C6_Witness ==
    /\ Produced("Top 20 Run Scorers")
    /\ LET S == ChartData("Top 20 Run Scorers")
       IN /\ Len(S) = 2
          /\ S[1].batsman_runs = S[2].batsman_runs
          /\ S[1].batsman < S[2].batsman
          /\ FirstIndex(LoadedBalls, "batsman", S[2].batsman)
                < FirstIndex(LoadedBalls, "batsman", S[1].batsman)

(***************************************************************************)
(* C7.  Every top-20 chart holds exactly min(20, G) rows, G the number of  *)
(* distinct groups of its (filtered) input: never more than 20, and all of *)
(* them when there are fewer.                                              *)
(***************************************************************************)
HoldsTop(title, groups) ==
    Produced(title) =>
        Len(ChartData(title)) = (IF Cardinality(groups) < 20 THEN Cardinality(groups) ELSE 20)

C7_Top20RowCount ==
    /\ HoldsTop("Top 20 Most Played Venues",
                {LoadedMatches.rows[i]["venue"] : i \in 1..NRows(LoadedMatches)} \ {NoName})
    /\ HoldsTop("Top 20 Player of the Match Winners",
                {LoadedMatches.rows[i]["player_of_match"] : i \in 1..NRows(LoadedMatches)}
                    \ {NoName})
    /\ HoldsTop("Top 20 Run Scorers",
                {LoadedBalls.rows[i]["batsman"] : i \in 1..NRows(LoadedBalls)})
    /\ HoldsTop("Top 20 Wicket Takers",
                {LoadedBalls.rows[i]["bowler"] :
                    i \in {j \in 1..NRows(LoadedBalls) : LoadedBalls.rows[j]["is_wicket"] = 1}})
    /\ HoldsTop("Top 20 Six Hitters",
                {LoadedBalls.rows[i]["batsman"] : i \in 1..NRows(LoadedBalls)})
    /\ HoldsTop("Top 20 Four Hitters",
                {LoadedBalls.rows[i]["batsman"] : i \in 1..NRows(LoadedBalls)})
    /\ HoldsTop("Highest Strike Rate (Min Balls Faced = 200)",
                {LoadedBalls.rows[i]["batsman"] : i \in 1..NRows(LoadedBalls)})
    /\ HoldsTop("Top Economy Bowlers",
                {LoadedBalls.rows[i]["bowler"] : i \in 1..NRows(LoadedBalls)})

\* more than 20 venues: the chart is cut to 20
C7_Witness ==
    /\ Produced("Top 20 Most Played Venues")
    /\ Cardinality({LoadedMatches.rows[i]["venue"] : i \in 1..NRows(LoadedMatches)}) > 20
    /\ Len(ChartData("Top 20 Most Played Venues")) = 20

(***************************************************************************)
(* C8.  The strike-rate chart gives every batsman with a delivery          *)
(* 100 * sum(batsman_runs) / count(deliveries), computed in float64 as     *)
(* sum / count * 100 (so equal to it to within rounding), ranks all of     *)
(* them by it, highest first, and keeps the top 20; no minimum of balls    *)
(* faced is applied: a batsman with 2 deliveries and 50 runs stands at     *)
(* exactly 2500.                                                           *)
(***************************************************************************)
C8_StrikeRateUnfiltered ==
    Produced("Highest Strike Rate (Min Balls Faced = 200)") =>
        LET S == ChartData("Highest Strike Rate (Min Balls Faced = 200)")
            all == StrikeRatesOf(LoadedBalls)
            runs == RunsOf(LoadedBalls)
            faced == FacedOf(LoadedBalls)
        IN /\ FloatLeaderboardOf(S, "batsman", "strike_rate", all)
           /\ Len(S) = (IF Cardinality(DOMAIN all) < 20 THEN Cardinality(DOMAIN all) ELSE 20)
           /\ \A i \in DOMAIN S :
                 /\ S[i].ball_faced >= 1
                 /\ S[i].ball_faced = faced[S[i].batsman]
                 /\ S[i].batsman_runs = runs[S[i].batsman]
                 /\ NearQuotient(S[i].strike_rate, 100 * S[i].batsman_runs, S[i].ball_faced)
                 /\ (S[i].ball_faced = 2 /\ S[i].batsman_runs = 50) =>
                        S[i].strike_rate = FromInt(2500)

\* 2 deliveries, 50 runs: strike rate 2500, charted
C8_Witness ==
    /\ Produced("Highest Strike Rate (Min Balls Faced = 200)")
    /\ \E i \in DOMAIN ChartData("Highest Strike Rate (Min Balls Faced = 200)") :
          LET r == ChartData("Highest Strike Rate (Min Balls Faced = 200)")[i]
          IN /\ r.ball_faced = 2
             /\ r.batsman_runs = 50
             /\ r.strike_rate = FromInt(2500)

(***************************************************************************)
(* C9.  The claim as written: the economy chart gives every bowler         *)
(* sum(total_runs) / (count(deliveries) / 6), so that economy * deliveries *)
(* = 6 * runs, lists the bowlers by it, lowest first, and keeps the 20     *)
(* lowest.                                                                 *)
(***************************************************************************)
C9_EconomyExact ==
    Produced("Top Economy Bowlers") =>
        LET S == ChartData("Top Economy Bowlers")
            bowled == BowledOf(LoadedBalls)
            conceded == ConcededOf(LoadedBalls)
        IN /\ Len(S) = (IF Cardinality(DOMAIN bowled) < 20
                        THEN Cardinality(DOMAIN bowled) ELSE 20)
           /\ \A i \in 1..(Len(S) - 1) : ~FLess(S[i + 1].economy, S[i].economy)
           /\ \A i \in DOMAIN S :
                 /\ S[i].bowler \in DOMAIN bowled
                 /\ ExactQuotient(S[i].economy, 6 * conceded[S[i].bowler],
                                  bowled[S[i].bowler])

(***************************************************************************)
(* C9, amended.  The economy chart gives every bowler the float64 value of *)
(* sum(total_runs) / (count(deliveries) / 6), both divisions rounded to    *)
(* the nearest double.  economy * deliveries equals 6 * runs only to       *)
(* within that rounding (a relative error of at most 2^-51), and exactly   *)
(* where the quotients are representable: as many runs as deliveries give  *)
(* exactly 6.  The bowlers are listed by the computed value, lowest first, *)
(* and the 20 lowest are kept.                                             *)
(***************************************************************************)
C9_EconomyRate ==
    Produced("Top Economy Bowlers") =>
        LET S == ChartData("Top Economy Bowlers")
            all == EconomiesOf(LoadedBalls)
            bowled == BowledOf(LoadedBalls)
            conceded == ConcededOf(LoadedBalls)
        IN /\ Len(S) = (IF Cardinality(DOMAIN all) < 20 THEN Cardinality(DOMAIN all) ELSE 20)
           /\ \A i \in 1..(Len(S) - 1) : ~FLess(S[i + 1].economy, S[i].economy)
           /\ \A i, j \in DOMAIN S : i # j => S[i].bowler # S[j].bowler
           /\ \A i \in DOMAIN S :
                 /\ S[i].bowler \in DOMAIN all
                 /\ S[i].economy = all[S[i].bowler]
                 /\ NearQuotient(S[i].economy, 6 * conceded[S[i].bowler],
                                 bowled[S[i].bowler])
                 /\ conceded[S[i].bowler] = bowled[S[i].bowler] =>
                        S[i].economy = FromInt(6)
           /\ \A k \in DOMAIN all : \A i \in DOMAIN S :
                 k \notin KeysIn(S, "bowler") => ~FLess(all[k], S[i].economy)

\* a bowler whose economy is not exactly 6 * runs / deliveries: 6 runs off
\* 20 deliveries stand at 1.7999999999999998
C9_Witness ==
    /\ Produced("Top Economy Bowlers")
    /\ \E i \in DOMAIN ChartData("Top Economy Bowlers") :
          LET r == ChartData("Top Economy Bowlers")[i]
          IN /\ r.runs_conceded = 6
             /\ r.ball_faced = 20
             /\ r.economy = Float(Big(7372, 838860, 838860), -52)
             /\ ~ExactQuotient(r.economy, 6 * r.runs_conceded, r.ball_faced)
             /\ NearQuotient(r.economy, 6 * r.runs_conceded, r.ball_faced)

(***************************************************************************)
(* C10.  The load is memoized for the life of the process: once load_data  *)
(* has returned, its body does not run again; every later render receives  *)
(* tables equal to the ones first loaded, whatever has become of the       *)
(* source files and whatever columns the pipelines of an earlier render    *)
(* added to the tables they received.                                      *)
(***************************************************************************)
C10_LoadMemoized ==
    /\ bodyRuns <= 1
    /\ Loaded <=> bodyRuns = 1
    /\ Loaded =>
          /\ LoadedMatches = LoadBody(Present, csv).matches
          /\ LoadedBalls = LoadBody(Present, csv).balls
          /\ LoadedBalls.cols \cap DerivedCols = {}
    /\ (Loaded /\ pc = "matches_per_season") =>
          /\ matches = LoadedMatches
          /\ balls = LoadedBalls
    /\ (Loaded /\ pc \notin {"load_data", "stopped"}) =>
          /\ Project(balls, LoadedBalls.cols) = LoadedBalls
          /\ matches = LoadedMatches

\* a second render, a source gone since the first one, the tables received
\* again after the first render had added its columns
C10_Witness ==
    /\ render = 2
    /\ pc = "done"
    /\ ~srcExists.balls
    /\ bodyRuns = 1
    /\ DerivedCols \subseteq balls.cols

=============================================================================
